---- MODULE Spec2Model ----
(***************************************************************************)
(* Model of pyeclib's driver layer (src/python/pyeclib/core.py):           *)
(*   ECStripingDriver  - pure byte striping, m = 0                         *)
(*   ECPyECLibDriver   - erasure-coded driver on top of the pyeclib_c      *)
(*                       codec engine                                      *)
(* The codec engine (pyeclib_c) and the enumerations (ec_iface) are not    *)
(* part of the sources at hand; they are modelled from the specification   *)
(* as an ideal systematic Reed-Solomon (MDS) code over GF(P).              *)
(***************************************************************************)
EXTENDS Integers, Sequences, FiniteSets, TLC

VARIABLES
    pyver,              \* major version of the interpreter (core.py line 30)
    drv,                \* the driver object the caller holds, or NoDriver
    op,                 \* the call whose outcome is held, "none" when idle
    orig,               \* the buffer handed to the last encode
    frags,              \* what the last encode returned
    fragment_payloads,  \* the caller's fragment list, after the call
    passed,             \* the index list as the caller passed it
    indexes,            \* the caller's index list object, after the call
    fault,              \* the engine primitive call that fails, if any
    calls,              \* the engine primitives invoked by the call, in order
    result              \* what the call returned or raised

vars == <<pyver, drv, op, orig, frags, fragment_payloads, passed, indexes,
          fault, calls, result>>

(***************************************************************************)
(* Bounds of the model.                                                    *)
(***************************************************************************)
MaxK == 3
MaxLen == 4
MaxByte == 1
MaxData == 2
MaxN == 4
MaxTargets == 2

(***************************************************************************)
(* Generic helpers.                                                        *)
(***************************************************************************)
Bytes == 0..MaxByte

SeqsUpTo(S, n) == UNION {[1..l -> S] : l \in 0..n}

Buffers == SeqsUpTo(Bytes, MaxLen)

Min(a, b) == IF a < b THEN a ELSE b

Max(a, b) == IF a > b THEN a ELSE b

RECURSIVE Concat(_)
Concat(ss) == IF ss = <<>> THEN <<>> ELSE Head(ss) \o Concat(Tail(ss))

RECURSIVE SumLen(_)
SumLen(ss) == IF ss = <<>> THEN 0 ELSE Len(Head(ss)) + SumLen(Tail(ss))

\* math.ceil(a / float(b)) for a >= 0, b >= 1 (Python 3: an int)
Ceil(a, b) == (a + b - 1) \div b

\* Python's s[start:stop] for integer bounds: a negative bound counts from
\* the end, both are clipped to [0, len(s)], an empty range gives ''.
PyIndex(i, n) == IF i < 0 THEN Max(i + n, 0) ELSE Min(i, n)

PySlice(s, start, stop) ==
    LET a == PyIndex(start, Len(s))
        b == PyIndex(stop, Len(s))
    IN IF a < b THEN SubSeq(s, a + 1, b) ELSE <<>>

(***************************************************************************)
(* Outcomes of a call: a returned value or a raised exception.             *)
(***************************************************************************)
NoValue == <<>>

Return(v) == [status |-> "ok", exc |-> "", value |-> v]

Raise(e) == [status |-> "raise", exc |-> e, value |-> NoValue]

\* a call that returned Python's None
ReturnNone == [status |-> "None", exc |-> "", value |-> NoValue]

NoResult == [status |-> "nocall", exc |-> "", value |-> NoValue]

NoDriver == [class |-> "none"]

(***************************************************************************)
(* ECStripingDriver                                                        *)
(***************************************************************************)
\* __init__(k, m): the outcome of the constructor call
StripingInitOutcome(k, m) ==
    IF m # 0 THEN Raise("ECPyECLibException") ELSE Return(NoValue)

\* the object the caller obtains from a constructor call that returned
StripingDriver(k, m) == [class |-> "striping", k |-> k, m |-> m]

\* encode(data_bytes), lines 196-209.  Under Python 2 math.ceil returns a
\* float, and a float slice bound raises TypeError at the first slice; under
\* Python 3 it returns an int and the slices are taken as written.
StripingFragmentSize(k, data_bytes) == Ceil(Len(data_bytes), k)

StripingLastFragmentSize(k, data_bytes) ==
    Len(data_bytes) - (StripingFragmentSize(k, data_bytes) * k - 1)

StripingFragments(k, data_bytes) ==
    LET fragment_size == StripingFragmentSize(k, data_bytes)
        last_fragment_size == StripingLastFragmentSize(k, data_bytes)
    IN [i \in 1..k |->
          IF i < k
          THEN PySlice(data_bytes, (i - 1) * fragment_size, fragment_size)
          ELSE PySlice(data_bytes, (k - 1) * fragment_size, last_fragment_size)]

StripingEncode(pv, k, data_bytes) ==
    IF pv = 2 THEN Raise("TypeError")
    ELSE Return(StripingFragments(k, data_bytes))

\* decode with the count test written as "too few" only
StripingDecodeTooFewOnly(k, payloads) ==
    IF Len(payloads) < k THEN Raise("ECPyECLibException")
    ELSE Return(Concat(payloads))

\* decode(fragment_payloads), lines 218-228
\* (fragments are strings, the type of the accumulator '' of line 223)
StripingDecode(k, payloads) ==
    IF Len(payloads) # k THEN Raise("ECPyECLibException")
    ELSE Return(Concat(payloads))

\* reconstruct with the count test written as "too many" only
StripingReconstructTooManyOnly(k, available, missing) ==
    IF Len(available) > k THEN Raise("ECPyECLibException")
    ELSE Return(available)

\* reconstruct(available_fragment_payloads, missing_fragment_indexes),
\* lines 240-245
StripingReconstruct(k, available, missing) ==
    IF Len(available) # k THEN Raise("ECPyECLibException")
    ELSE Return(available)

(***************************************************************************)
(* The codec engine, pyeclib_c: an ideal systematic MDS code.  A buffer is *)
(* padded to k equal stripes; column t of the stripes is read as the       *)
(* values at the points 0..k-1 of a polynomial of degree < k over GF(P),   *)
(* and parity fragment j holds its values at point j (k <= j < k+m).  Any  *)
(* k fragments determine the polynomial, hence every other fragment.       *)
(***************************************************************************)
P == 7

EC_Types == {"jerasure_rs_vand", "jerasure_rs_cauchy", "flat_xor_hd"}

HDRCHKSUM_Types == {"none", "inline", "algsig"}

NoFault == [prim |-> "none", nth |-> 0]

Inverse(a) == CHOOSE x \in 1..(P - 1) : (a * x) % P = 1

RECURSIVE Product(_, _, _)
Product(xs, i, x) ==
    IF xs = {} THEN 1
    ELSE LET j == CHOOSE e \in xs : TRUE
         IN (((x - j) % P) * Inverse((i - j) % P)
               * Product(xs \ {j}, i, x)) % P

RECURSIVE LagrangeSum(_, _, _, _)
LagrangeSum(todo, xs, y, x) ==
    IF todo = {} THEN 0
    ELSE LET i == CHOOSE e \in todo : TRUE
         IN (y[i] * Product(xs \ {i}, i, x)
               + LagrangeSum(todo \ {i}, xs, y, x)) % P

\* the value at x of the polynomial through the points (i, y[i]), i \in xs
Interpolate(xs, y, x) == LagrangeSum(xs, xs, y, x)

Fragment(idx, size, payload) ==
    [idx |-> idx, size |-> size, payload |-> payload]

\* len() of a fragment buffer: its header (index, size) and its payload
FragLen(f) == Len(<<f.idx, f.size>>) + Len(f.payload)

Indices(fragments) == {fragments[i].idx : i \in DOMAIN fragments}

FragmentAt(fragments, idx) ==
    fragments[CHOOSE i \in DOMAIN fragments : fragments[i].idx = idx]

\* the k smallest of a set of indices
RECURSIVE Smallest(_, _)
Smallest(S, n) ==
    IF n = 0 \/ S = {} THEN {}
    ELSE LET lo == CHOOSE e \in S : \A o \in S : e <= o
         IN {lo} \cup Smallest(S \ {lo}, n - 1)

\* ascending list of a set of indices
RECURSIVE Ascending(_)
Ascending(S) ==
    IF S = {} THEN <<>>
    ELSE LET lo == CHOOSE e \in S : \A o \in S : e <= o
         IN <<lo>> \o Ascending(S \ {lo})

\* the payload of fragment idx, computed from k of the fragments held
Rebuild(h, fragments, idx) ==
    LET xs == Smallest(Indices(fragments), h.k)
        n == Len(fragments[1].payload)
    IN [t \in 1..n |->
          Interpolate(xs, [i \in xs |-> FragmentAt(fragments, i).payload[t]], idx)]

\* init(k, m, algorithm_id, inline_checksum_flag, signature_checksum_flag)
EngineInit(k, m, ec_type, inline_chksum, algsig_chksum) ==
    IF k < 1 \/ m < 0 \/ k + m > P
    THEN Raise("EngineError")
    ELSE Return([k |-> k, m |-> m, ec_type |-> ec_type,
                 inline_chksum |-> inline_chksum,
                 algsig_chksum |-> algsig_chksum])

\* encode(handle, buffer) -> ordered[k+m] fragment buffers
EngineEncode(h, data_bytes) ==
    LET size == Len(data_bytes)
        n == Ceil(size, h.k)
        padded == [i \in 1..(n * h.k) |->
                     IF i <= size THEN data_bytes[i] ELSE 0]
        stripe(i) == [t \in 1..n |-> padded[i * n + t]]
    IN Return([j \in 1..(h.k + h.m) |->
          IF j <= h.k
          THEN Fragment(j - 1, size, stripe(j - 1))
          ELSE Fragment(j - 1, size,
                 [t \in 1..n |->
                    Interpolate(0..(h.k - 1),
                                [i \in 0..(h.k - 1) |-> stripe(i)[t]],
                                j - 1)])])

\* reassemble(handle, fragments) -> buffer | needs-reconstruction sentinel
EngineFragmentsToString(h, fragments) ==
    IF \A i \in 0..(h.k - 1) : i \in Indices(fragments)
    THEN LET data == [i \in 1..h.k |-> FragmentAt(fragments, i - 1).payload]
         IN Return(SubSeq(Concat(data), 1, fragments[1].size))
    ELSE ReturnNone

\* partition(handle, fragments) -> (data, parity, missing): one slot per
\* index, a zero-filled buffer in the slot of a fragment that is not held
EngineGetFragmentPartition(h, fragments) ==
    IF fragments = <<>> THEN Raise("EngineError")
    ELSE LET size == fragments[1].size
             n == Len(fragments[1].payload)
             slot(idx) == IF idx \in Indices(fragments)
                          THEN FragmentAt(fragments, idx)
                          ELSE Fragment(idx, size, [t \in 1..n |-> 0])
         IN Return(<<[i \in 1..h.k |-> slot(i - 1)],
                     [i \in 1..h.m |-> slot(h.k + i - 1)],
                     Ascending((0..(h.k + h.m - 1)) \ Indices(fragments))>>)

\* the fragments of a partition that are held
Held(data_frags, parity_frags, missing_idxs) ==
    SelectSeq(data_frags \o parity_frags,
              LAMBDA f : \A i \in DOMAIN missing_idxs : missing_idxs[i] # f.idx)

\* bulk_reconstruct(handle, data, parity, missing, fragment_size): the k
\* data fragments, the missing ones rebuilt
EngineDecode(h, data_frags, parity_frags, missing_idxs, fragment_size) ==
    LET held == Held(data_frags, parity_frags, missing_idxs)
    IN IF \/ Len(held) < h.k
          \/ \E i \in DOMAIN held : FragLen(held[i]) # fragment_size
       THEN Raise("EngineError")
       ELSE Return([i \in 1..h.k |->
              IF (i - 1) \in Indices(held) THEN data_frags[i]
              ELSE Fragment(i - 1, held[1].size, Rebuild(h, held, i - 1))])

\* single_reconstruct(handle, data, parity, missing, target, fragment_size)
EngineReconstruct(h, data_frags, parity_frags, missing_idxs, index, size) ==
    LET held == Held(data_frags, parity_frags, missing_idxs)
    IN IF \/ Len(held) < h.k
          \/ index \notin 0..(h.k + h.m - 1)
          \/ \E i \in DOMAIN held : FragLen(held[i]) # size
       THEN Raise("EngineError")
       ELSE Return(Fragment(index, held[1].size, Rebuild(h, held, index)))

\* required_fragments(handle, missing) -> ordered index list
EngineGetRequiredFragments(h, missing_idxs) ==
    LET usable == {i \in 0..(h.k + h.m - 1) :
                     \A j \in DOMAIN missing_idxs : missing_idxs[j] # i}
    IN IF Cardinality(usable) < h.k THEN Raise("EngineError")
       ELSE Return(Ascending(Smallest(usable, h.k)))

Engine(h, prim, args) ==
    CASE prim = "init" ->
           EngineInit(args[1], args[2], args[3], args[4], args[5])
      [] prim = "encode" -> EngineEncode(h, args[1])
      [] prim = "fragments_to_string" -> EngineFragmentsToString(h, args[1])
      [] prim = "get_fragment_partition" ->
           EngineGetFragmentPartition(h, args[1])
      [] prim = "decode" ->
           EngineDecode(h, args[1], args[2], args[3], args[4])
      [] prim = "reconstruct" ->
           EngineReconstruct(h, args[1], args[2], args[3], args[4], args[5])
      [] prim = "get_required_fragments" ->
           EngineGetRequiredFragments(h, args[1])

\* one invocation of a primitive, as the call log records it; the invocation
\* named by flt fails whatever its arguments
CallNo(log, prim) ==
    Cardinality({i \in DOMAIN log : log[i].prim = prim}) + 1

EngineCall(h, prim, args, flt, log) ==
    [prim |-> prim, args |-> args,
     out |-> IF flt = [prim |-> prim, nth |-> CallNo(log, prim)]
             THEN Raise("EngineError")
             ELSE Engine(h, prim, args)]

(***************************************************************************)
(* ECPyECLibDriver.  Each method is a computation that yields the outcome  *)
(* the caller sees and the engine primitives it invoked, in order.         *)
(***************************************************************************)
Done(r, log) == [result |-> r, calls |-> log]

\* __init__ without the test of the checksum mode
ECInitUncheckedChksum(k, m, ec_type, chksum_type, flt) ==
    IF ec_type \notin EC_Types
    THEN Done(Raise("ECPyECLibException"), <<>>)
    ELSE LET inline_chksum == IF chksum_type = "inline" THEN 1 ELSE 0
             algsig_chksum == IF chksum_type = "inline" THEN 0
                              ELSE IF chksum_type = "algsig" THEN 1 ELSE 0
             c == EngineCall(NoDriver, "init",
                             <<k, m, ec_type, inline_chksum, algsig_chksum>>,
                             flt, <<>>)
         IN Done(c.out, <<c>>)

\* __init__(k, m, ec_type, chksum_type), lines 49-78
ECInit(k, m, ec_type, chksum_type, flt) ==
    IF ec_type \notin EC_Types
    THEN Done(Raise("ECPyECLibException"), <<>>)
    ELSE IF chksum_type \notin HDRCHKSUM_Types
    THEN Done(Raise("ECPyECLibException"), <<>>)
    ELSE LET inline_chksum == IF chksum_type = "inline" THEN 1 ELSE 0
             algsig_chksum == IF chksum_type = "inline" THEN 0
                              ELSE IF chksum_type = "algsig" THEN 1 ELSE 0
             c == EngineCall(NoDriver, "init",
                             <<k, m, ec_type, inline_chksum, algsig_chksum>>,
                             flt, <<>>)
         IN Done(c.out, <<c>>)

\* the object the caller obtains from a constructor call that returned
ECDriver(k, m, ec_type, chksum_type, handle) ==
    [class |-> "ec", k |-> k, m |-> m, ec_type |-> ec_type,
     chksum_type |-> chksum_type,
     inline_chksum |-> handle.inline_chksum,
     algsig_chksum |-> handle.algsig_chksum,
     handle |-> handle]

\* encode(data_bytes), lines 80-81
ECEncode(self, data_bytes, flt) ==
    LET c == EngineCall(self.handle, "encode", <<data_bytes>>, flt, <<>>)
    IN Done(c.out, <<c>>)

\* the second phase of decode, from the partition on
ECDecodeSecondPhase(self, payloads, flt, c1) ==
    LET c2 == EngineCall(self.handle, "get_fragment_partition",
                         <<payloads>>, flt, <<c1>>)
    IN IF c2.out.status = "raise" THEN Done(c2.out, <<c1, c2>>)
       ELSE
       LET data_frags == c2.out.value[1]
           parity_frags == c2.out.value[2]
           missing_idxs == c2.out.value[3]
           c3 == EngineCall(self.handle, "decode",
                            <<data_frags, parity_frags, missing_idxs,
                              FragLen(data_frags[1])>>,
                            flt, <<c1, c2>>)
       IN IF c3.out.status = "raise" THEN Done(c3.out, <<c1, c2, c3>>)
          ELSE
          LET c4 == EngineCall(self.handle, "fragments_to_string",
                               <<c3.out.value>>, flt, <<c1, c2, c3>>)
          IN Done(c4.out, <<c1, c2, c3, c4>>)

\* decode that returns whatever the first reassembly returned
ECDecodeFirstPhaseOnly(self, payloads, flt) ==
    LET c1 == EngineCall(self.handle, "fragments_to_string", <<payloads>>,
                         flt, <<>>)
    IN IF c1.out.status = "raise"
       THEN Done(Raise("ECPyECLibException"), <<c1>>)
       ELSE Done(c1.out, <<c1>>)

\* decode that reconstructs even when the first reassembly gave the buffer
ECDecodeAlwaysReconstruct(self, payloads, flt) ==
    LET c1 == EngineCall(self.handle, "fragments_to_string", <<payloads>>,
                         flt, <<>>)
    IN IF c1.out.status = "raise"
       THEN Done(Raise("ECPyECLibException"), <<c1>>)
       ELSE ECDecodeSecondPhase(self, payloads, flt, c1)

\* decode(fragment_payloads), lines 83-103
ECDecode(self, payloads, flt) ==
    LET c1 == EngineCall(self.handle, "fragments_to_string", <<payloads>>,
                         flt, <<>>)
    IN IF c1.out.status = "raise"
       THEN Done(Raise("ECPyECLibException"), <<c1>>)
       ELSE IF c1.out.status # "None"
       THEN Done(c1.out, <<c1>>)
       ELSE ECDecodeSecondPhase(self, payloads, flt, c1)

\* list.sort() on a list of indices
Sorted(idxs) == SortSeq(idxs, LAMBDA a, b : a < b)

\* the loop of reconstruct asking the engine for the first missing index
\* instead of the index popped
RECURSIVE ECReconstructLoopFirstMissing(_, _, _, _, _, _)
ECReconstructLoopFirstMissing(self, payloads, todo, flt, log, acc) ==
    IF Len(todo) = 0 THEN Done(Return(acc), log)
    ELSE
    LET c1 == EngineCall(self.handle, "get_fragment_partition", <<payloads>>,
                         flt, log)
    IN IF c1.out.status = "raise" THEN Done(c1.out, Append(log, c1))
       ELSE
       LET data_frags == c1.out.value[1]
           parity_frags == c1.out.value[2]
           missing_idxs == c1.out.value[3]
           c2 == EngineCall(self.handle, "reconstruct",
                            <<data_frags, parity_frags, missing_idxs,
                              missing_idxs[1], FragLen(data_frags[1])>>,
                            flt, Append(log, c1))
       IN IF c2.out.status = "raise" THEN Done(c2.out, log \o <<c1, c2>>)
          ELSE ECReconstructLoopFirstMissing(self, payloads, Tail(todo), flt,
                                 log \o <<c1, c2>>,
                                 Append(acc, c2.out.value))

\* the while loop of reconstruct, lines 114-123
RECURSIVE ECReconstructLoop(_, _, _, _, _, _)
ECReconstructLoop(self, payloads, todo, flt, log, reconstructed_data) ==
    IF Len(todo) = 0 THEN Done(Return(reconstructed_data), log)
    ELSE
    LET index == Head(todo)
        c1 == EngineCall(self.handle, "get_fragment_partition", <<payloads>>,
                         flt, log)
    IN IF c1.out.status = "raise" THEN Done(c1.out, Append(log, c1))
       ELSE
       LET data_frags == c1.out.value[1]
           parity_frags == c1.out.value[2]
           missing_idxs == c1.out.value[3]
           c2 == EngineCall(self.handle, "reconstruct",
                            <<data_frags, parity_frags, missing_idxs, index,
                              FragLen(data_frags[1])>>,
                            flt, Append(log, c1))
       IN IF c2.out.status = "raise" THEN Done(c2.out, log \o <<c1, c2>>)
          ELSE ECReconstructLoop(self, payloads, Tail(todo), flt,
                                 log \o <<c1, c2>>,
                                 Append(reconstructed_data, c2.out.value))

\* reconstruct that leaves the targets in the order given
ECReconstructIndexesUnsorted(indexes_to_reconstruct) == indexes_to_reconstruct

\* reconstruct(fragment_payloads, indexes_to_reconstruct), lines 105-125;
\* the caller's list is sorted in place before anything else happens
ECReconstructIndexes(indexes_to_reconstruct) == Sorted(indexes_to_reconstruct)

\* the caller's list as if the loop popped from it and not from a copy
ECReconstructCallerIndexesConsumed(indexes_to_reconstruct) == <<>>

\* the caller's list object once reconstruct is over: sorted in place by
\* line 111 and not touched again, the loop pops from the copy of line 112
ECReconstructCallerIndexes(indexes_to_reconstruct) ==
    ECReconstructIndexes(indexes_to_reconstruct)

ECReconstruct(self, payloads, indexes_to_reconstruct, flt) ==
    ECReconstructLoop(self, payloads,
                      ECReconstructIndexes(indexes_to_reconstruct),
                      flt, <<>>, <<>>)

\* fragments_needed answering with the list it was given, as the striping
\* driver does
ECFragmentsNeededIdentity(self, missing_fragment_indexes, flt) ==
    LET c == EngineCall(self.handle, "get_required_fragments",
                        <<missing_fragment_indexes>>, flt, <<>>)
    IN Done(Return(missing_fragment_indexes), <<c>>)

\* fragments_needed(missing_fragment_indexes), lines 127-129
ECFragmentsNeeded(self, missing_fragment_indexes, flt) ==
    LET c == EngineCall(self.handle, "get_required_fragments",
                        <<missing_fragment_indexes>>, flt, <<>>)
    IN Done(c.out, <<c>>)

(***************************************************************************)
(* The caller: it constructs a driver, makes one call at a time, looks at  *)
(* the outcome and drops it before the next call.                          *)
(***************************************************************************)
\* fragment lists a caller may hand to the striping driver
PoolFragments == {<<>>, <<0>>, <<1>>}

PoolLists == SeqsUpTo(PoolFragments, MaxK + 1)

MissingLists == {<<>>, <<0>>, <<1>>, <<0, 1>>}

ECBuffers == SeqsUpTo(Bytes, MaxData)

FaultAt(prim, nth) == [prim |-> prim, nth |-> nth]

\* duplicate-free lists of at most n elements of S
Targets(S, n) ==
    {t \in SeqsUpTo(S, n) : \A i, j \in DOMAIN t : i # j => t[i] # t[j]}

\* the fragments of fs whose index is in S, in the order of fs
Survivors(fs, S) == SelectSeq(fs, LAMBDA f : f.idx \in S)

Init ==
    /\ pyver \in {2, 3}
    /\ drv = NoDriver
    /\ op = "none"
    /\ orig = <<>>
    /\ frags = <<>>
    /\ fragment_payloads = <<>>
    /\ passed = <<>>
    /\ indexes = <<>>
    /\ fault = NoFault
    /\ calls = <<>>
    /\ result = NoResult

Discard ==
    /\ op # "none"
    /\ op' = "none"
    /\ orig' = <<>>
    /\ frags' = <<>>
    /\ fragment_payloads' = <<>>
    /\ passed' = <<>>
    /\ indexes' = <<>>
    /\ fault' = NoFault
    /\ calls' = <<>>
    /\ result' = NoResult
    /\ UNCHANGED <<pyver, drv>>

NewStripingDriver ==
    /\ op = "none"
    /\ \E k \in 1..MaxK, m \in 0..1 :
        LET r == StripingInitOutcome(k, m)
        IN /\ op' = "ECStripingDriver"
           /\ passed' = <<k, m>>
           /\ result' = r
           /\ drv' = IF r.status = "ok" THEN StripingDriver(k, m) ELSE NoDriver
    /\ UNCHANGED <<pyver, orig, frags, fragment_payloads, indexes, fault, calls>>

NewECDriver ==
    /\ op = "none"
    /\ \E k \in 1..MaxK, ec_type \in EC_Types \cup {"bogus"},
          chksum_type \in HDRCHKSUM_Types \cup {"bogus"},
          flt \in {NoFault, FaultAt("init", 1)} :
        \E m \in 0..(MaxN - k) :
        LET c == ECInit(k, m, ec_type, chksum_type, flt)
        IN /\ op' = "ECPyECLibDriver"
           /\ passed' = <<k, m, ec_type, chksum_type>>
           /\ fault' = flt
           /\ calls' = c.calls
           /\ result' = c.result
           /\ drv' = IF c.result.status = "ok"
                     THEN ECDriver(k, m, ec_type, chksum_type, c.result.value)
                     ELSE NoDriver
    /\ UNCHANGED <<pyver, orig, frags, fragment_payloads, indexes>>

DoStripingEncode ==
    /\ drv.class = "striping"
    /\ op = "none"
    /\ \E data_bytes \in Buffers :
        LET r == StripingEncode(pyver, drv.k, data_bytes)
        IN /\ op' = "encode"
           /\ orig' = data_bytes
           /\ result' = r
           /\ frags' = r.value
    /\ UNCHANGED <<pyver, drv, fragment_payloads, passed, indexes, fault, calls>>

\* decode(encode(B)): the fragments encode returned are handed to decode
DoStripingDecodeEncoded ==
    /\ drv.class = "striping"
    /\ op = "encode"
    /\ result.status = "ok"
    /\ op' = "decode"
    /\ fragment_payloads' = frags
    /\ result' = StripingDecode(drv.k, frags)
    /\ UNCHANGED <<pyver, drv, orig, frags, passed, indexes, fault, calls>>

\* decode of any list of fragments
DoStripingDecode ==
    /\ drv.class = "striping"
    /\ op = "none"
    /\ \E payloads \in PoolLists :
        /\ op' = "decode"
        /\ fragment_payloads' = payloads
        /\ result' = StripingDecode(drv.k, payloads)
    /\ UNCHANGED <<pyver, drv, orig, frags, passed, indexes, fault, calls>>

DoStripingReconstruct ==
    /\ drv.class = "striping"
    /\ op = "none"
    /\ \E available \in PoolLists, missing \in MissingLists :
        /\ op' = "reconstruct"
        /\ fragment_payloads' = available
        /\ passed' = missing
        /\ indexes' = missing
        /\ result' = StripingReconstruct(drv.k, available, missing)
    /\ UNCHANGED <<pyver, drv, orig, frags, fault, calls>>

Next ==
    \/ NewStripingDriver
    \/ NewECDriver
    \/ DoStripingEncode
    \/ DoStripingDecodeEncoded
    \/ DoStripingDecode
    \/ DoStripingReconstruct
    \/ Discard

Spec == Init /\ [][Next]_vars

(***************************************************************************)
(* The erasure-coded driver at work: the caller holds a driver built for   *)
(* a Reed-Solomon code, encodes a buffer, loses some of the fragments and  *)
(* decodes or reconstructs from the rest.                                  *)
(***************************************************************************)
InitEC ==
    /\ pyver = 2
    /\ \E k \in 1..MaxK :
        \E m \in 0..(MaxN - k) :
        LET c == ECInit(k, m, "jerasure_rs_vand", "none", NoFault)
        IN drv = ECDriver(k, m, "jerasure_rs_vand", "none", c.result.value)
    /\ op = "none"
    /\ orig = <<>>
    /\ frags = <<>>
    /\ fragment_payloads = <<>>
    /\ passed = <<>>
    /\ indexes = <<>>
    /\ fault = NoFault
    /\ calls = <<>>
    /\ result = NoResult

DecodeFaults ==
    {NoFault, FaultAt("fragments_to_string", 1),
     FaultAt("get_fragment_partition", 1), FaultAt("decode", 1),
     FaultAt("fragments_to_string", 2)}

ReconstructFaults ==
    {NoFault} \cup {FaultAt(prim, nth) :
                      prim \in {"get_fragment_partition", "reconstruct"},
                      nth \in 1..MaxTargets}

DoECEncode ==
    /\ drv.class = "ec"
    /\ op = "none"
    /\ \E data_bytes \in ECBuffers, flt \in {NoFault, FaultAt("encode", 1)} :
        LET c == ECEncode(drv, data_bytes, flt)
        IN /\ op' = "encode"
           /\ orig' = data_bytes
           /\ fault' = flt
           /\ calls' = c.calls
           /\ result' = c.result
           /\ frags' = c.result.value
    /\ UNCHANGED <<pyver, drv, fragment_payloads, passed, indexes>>

\* decode of the fragments that survive of the last encode
DoECDecode ==
    /\ drv.class = "ec"
    /\ op = "encode"
    /\ result.status = "ok"
    /\ \E S \in SUBSET (0..(drv.k + drv.m - 1)), flt \in DecodeFaults :
        LET c == ECDecode(drv, Survivors(frags, S), flt)
        IN /\ op' = "decode"
           /\ fragment_payloads' = Survivors(frags, S)
           /\ fault' = flt
           /\ calls' = c.calls
           /\ result' = c.result
    /\ UNCHANGED <<pyver, drv, orig, frags, passed, indexes>>

\* reconstruct of some of the fragments lost of the last encode
DoECReconstruct ==
    /\ drv.class = "ec"
    /\ op = "encode"
    /\ result.status = "ok"
    /\ \E S \in SUBSET (0..(drv.k + drv.m - 1)), flt \in ReconstructFaults :
        \E t \in Targets((0..(drv.k + drv.m - 1)) \ S, MaxTargets) :
        LET c == ECReconstruct(drv, Survivors(frags, S), t, flt)
        IN /\ op' = "reconstruct"
           /\ fragment_payloads' = Survivors(frags, S)
           /\ passed' = t
           /\ indexes' = ECReconstructCallerIndexes(t)
           /\ fault' = flt
           /\ calls' = c.calls
           /\ result' = c.result
    /\ UNCHANGED <<pyver, drv, orig, frags>>

DoECFragmentsNeeded ==
    /\ drv.class = "ec"
    /\ op = "none"
    /\ \E S \in SUBSET (0..(drv.k + drv.m - 1)),
          flt \in {NoFault, FaultAt("get_required_fragments", 1)} :
        \E missing \in Targets(S, Cardinality(S)) :
        /\ Len(missing) = Cardinality(S)
        /\ LET c == ECFragmentsNeeded(drv, missing, flt)
           IN /\ op' = "fragments_needed"
              /\ passed' = missing
              /\ indexes' = missing
              /\ fault' = flt
              /\ calls' = c.calls
              /\ result' = c.result
    /\ UNCHANGED <<pyver, drv, orig, frags, fragment_payloads>>

NextEC ==
    \/ DoECEncode
    \/ DoECDecode
    \/ DoECReconstruct
    \/ DoECFragmentsNeeded
    \/ Discard

SpecEC == InitEC /\ [][NextEC]_vars

(***************************************************************************)
(* Properties.                                                             *)
(***************************************************************************)
IsStriping(call) == drv.class = "striping" /\ op = call

IsEC(call) == drv.class = "ec" /\ op = call

\* the decode at hand was given exactly what the last encode returned
RoundTrip == frags # <<>> /\ fragment_payloads = frags

\* where fragment i of a list starts in the concatenation of the list
Offset(payloads, i) == SumLen(SubSeq(payloads, 1, i - 1))

\* v is the payloads laid end to end in the order of the list
IsConcatenation(v, payloads) ==
    /\ Len(v) = SumLen(payloads)
    /\ \A i \in DOMAIN payloads :
         \A j \in DOMAIN payloads[i] :
           v[Offset(payloads, i) + j] = payloads[i][j]

\* the indices of [0, k+m) that the fragments handed in do not cover
MissingOf(payloads) == (0..(drv.k + drv.m - 1)) \ Indices(payloads)

\* C1: striping round trip - decode(encode(B)) returns exactly B, for every
\* k >= 1 and every buffer B.
C1_StripingRoundTrip ==
    (IsStriping("decode") /\ RoundTrip) => result = Return(orig)

\* C2: striping encode sizing - encode returns exactly k fragments whose
\* lengths sum to len(B), none longer than ceil(len(B) / k).
C2_StripingEncodeSizing ==
    IsStriping("encode") =>
        /\ result.status = "ok"
        /\ Len(result.value) = drv.k
        /\ SumLen(result.value) = Len(orig)
        /\ \A i \in DOMAIN result.value :
             Len(result.value[i]) <= Ceil(Len(orig), drv.k)

\* C3: striping decode raises ECPyECLibException when it is given fewer or
\* more than k fragments, and given exactly k it raises nothing and returns
\* their concatenation in the order supplied.
C3_StripingDecodeCount ==
    IsStriping("decode") =>
        IF Len(fragment_payloads) # drv.k
        THEN result = Raise("ECPyECLibException")
        ELSE /\ result.status = "ok"
             /\ IsConcatenation(result.value, fragment_payloads)

C3_Witness ==
    /\ IsStriping("decode")
    /\ Len(fragment_payloads) > drv.k
    /\ result = Raise("ECPyECLibException")

C5_ConfigurationErrors ==
    /\ op = "ECPyECLibDriver" =>
        /\ (passed[3] \notin EC_Types \/ passed[4] \notin HDRCHKSUM_Types)
             => /\ result = Raise("ECPyECLibException")
                /\ calls = <<>>
        /\ (passed[3] \in EC_Types /\ passed[4] \in HDRCHKSUM_Types)
             => Len(calls) = 1
        /\ \A i \in DOMAIN calls :
             /\ i = 1
             /\ calls[i].prim = "init"
             /\ calls[i].args[1] = passed[1]
             /\ calls[i].args[2] = passed[2]
             /\ calls[i].args[3] = passed[3]
             /\ calls[i].args[3] \in EC_Types
             /\ calls[i].args[4] \in {0, 1}
             /\ calls[i].args[5] \in {0, 1}
             /\ calls[i].args[4] + calls[i].args[5] <= 1
        /\ result.status = "raise" => drv = NoDriver
    /\ op = "ECStripingDriver" =>
        /\ passed[2] # 0 => result = Raise("ECPyECLibException")
        /\ result.status = "raise" => drv = NoDriver

C5_Witness ==
    /\ op = "ECPyECLibDriver"
    /\ passed[3] \in EC_Types
    /\ passed[4] = "bogus"
    /\ result = Raise("ECPyECLibException")
    /\ calls = <<>>
    /\ drv = NoDriver

\* C6: every exception an engine primitive raises during decode or
\* reconstruct of the erasure-coded driver reaches the caller as
\* ECPyECLibException.
C6_EngineFailureWrapped ==
    ((IsEC("decode") \/ IsEC("reconstruct")) /\ result.status = "raise")
        => result.exc = "ECPyECLibException"

\* C7: MDS decode - with the engine honouring its contract, decode of any
\* k or more of the k+m fragments of encode(B) returns exactly B.
C7_MDSDecode ==
    (IsEC("decode") /\ fault = NoFault /\ Len(fragment_payloads) >= drv.k)
        => result = Return(orig)

C7_Witness ==
    /\ IsEC("decode")
    /\ fault = NoFault
    /\ drv.k = 2
    /\ Len(fragment_payloads) = drv.k
    /\ Indices(fragment_payloads) = {2, 3}
    /\ orig = <<1, 0>>
    /\ result = Return(orig)

\* C8: reconstruct result - with the engine honouring its contract and
\* between 1 and m fragments missing, reconstruct of missing indices returns
\* one payload per index asked for, and the payload for index i is the
\* fragment encode(B) produced at index i.
C8_ReconstructResult ==
    (/\ IsEC("reconstruct")
     /\ fault = NoFault
     /\ Len(passed) >= 1
     /\ Cardinality(MissingOf(fragment_payloads)) \in 1..drv.m)
        => /\ result.status = "ok"
           /\ Len(result.value) = Len(passed)
           /\ \A i \in DOMAIN passed :
                \E j \in DOMAIN result.value :
                    /\ result.value[j].idx = passed[i]
                    /\ result.value[j] = frags[passed[i] + 1]

C8_Witness ==
    /\ IsEC("reconstruct")
    /\ fault = NoFault
    /\ drv.k = 2
    /\ drv.m = 2
    /\ MissingOf(fragment_payloads) = {1, 3}
    /\ passed = <<3, 1>>
    /\ orig = <<1, 0>>
    /\ result.status = "ok"
    /\ Len(result.value) = 2

\* C9: fragments_needed - for at most m missing indices the driver returns
\* the engine's list unmodified: k indices in ascending order, none of them
\* missing, namely the first k indices of [0, k+m) that are not missing.
C9_FragmentsNeeded ==
    (IsEC("fragments_needed") /\ fault = NoFault /\ Len(passed) <= drv.m)
        => /\ Len(calls) = 1
           /\ calls[1].prim = "get_required_fragments"
           /\ calls[1].args = <<passed>>
           /\ result = calls[1].out
           /\ result.status = "ok"
           /\ Len(result.value) = drv.k
           /\ \A i \in DOMAIN result.value :
                /\ result.value[i] \in 0..(drv.k + drv.m - 1)
                /\ \A j \in DOMAIN passed : passed[j] # result.value[i]
                /\ \A j \in DOMAIN result.value :
                     i < j => result.value[i] < result.value[j]
                /\ \A x \in 0..result.value[i] :
                     \/ \E j \in DOMAIN passed : passed[j] = x
                     \/ \E j \in DOMAIN result.value : result.value[j] = x

C9_Witness ==
    /\ IsEC("fragments_needed")
    /\ fault = NoFault
    /\ drv.k = 2
    /\ drv.m = 2
    /\ passed = <<2, 0>>
    /\ result = Return(<<1, 3>>)

\* the calls of a decode up to and including the first reassembly
FirstReassembly ==
    /\ Len(calls) >= 1
    /\ calls[1].prim = "fragments_to_string"
    /\ calls[1].args = <<fragment_payloads>>
    /\ calls[1].out.status = "ok" => (Len(calls) = 1 /\ result = calls[1].out)

\* call i of the decode at hand is the primitive prim on the arguments args
IsCall(i, prim, args) ==
    /\ Len(calls) >= i
    /\ calls[i].prim = prim
    /\ calls[i].args = args

JthSmallest(idxs, j) ==
    CHOOSE x \in {idxs[i] : i \in DOMAIN idxs} :
        Cardinality({i \in DOMAIN idxs : idxs[i] < x}) = j - 1

\* the calls of the reconstruct at hand come in pairs, a partition of the
\* fragments the caller supplied and then a single-index reconstruction over
\* exactly what that partition returned, pair j being for the j-th smallest
\* target; only the last call made may have raised
ReconstructPairs ==
    /\ Len(calls) <= 2 * Len(passed)
    /\ \A i \in DOMAIN calls :
         /\ i < Len(calls) => calls[i].out.status = "ok"
         /\ i % 2 = 1 =>
              /\ calls[i].prim = "get_fragment_partition"
              /\ calls[i].args = <<fragment_payloads>>
         /\ i % 2 = 0 =>
              /\ calls[i].prim = "reconstruct"
              /\ SubSeq(calls[i].args, 1, 3) = calls[i - 1].out.value
              /\ calls[i].args[4] = JthSmallest(passed, i \div 2)

\* the reconstruct at hand ran to the end: one pair of calls per target and
\* the list of the single-index results, in the order of the calls
ReconstructComplete ==
    /\ Len(calls) = 2 * Len(passed)
    /\ \A i \in DOMAIN calls : calls[i].out.status = "ok"
    /\ result.status = "ok"
    /\ Len(result.value) = Len(passed)
    /\ \A j \in DOMAIN result.value : result.value[j] = calls[2 * j].out.value

Occurrences(idxs, x) == Cardinality({i \in DOMAIN idxs : idxs[i] = x})

\* after is before, sorted ascending: the same indices as many times each
IsSortedCopy(after, before) ==
    /\ Len(after) = Len(before)
    /\ \A i \in DOMAIN before :
         Occurrences(after, before[i]) = Occurrences(before, before[i])
    /\ \A i, j \in DOMAIN after : i < j => after[i] <= after[j]

\* C12: what a call of reconstruct leaves behind - the caller's target list
\* holds the indices it held, sorted ascending (reordered, not emptied); the
\* caller's fragment list is still the survivors it handed in, in their
\* order, with no reconstructed fragment added; the driver's configuration
\* (k, m, algorithm, checksum mode, handle) is what it was.
C12_ReconstructFrame ==
    [][(drv.class = "ec" /\ op = "encode" /\ op' = "reconstruct") =>
          /\ IsSortedCopy(indexes', passed')
          /\ fragment_payloads' = Survivors(frags, Indices(fragment_payloads'))
          /\ \A i \in DOMAIN passed' :
               passed'[i] \notin Indices(fragment_payloads')
          /\ calls' # <<>> => calls'[1].args = <<fragment_payloads'>>
          /\ drv' = drv]_vars

C12_Witness ==
    /\ IsEC("reconstruct")
    /\ fault = NoFault
    /\ result.status = "ok"
    /\ passed = <<2, 0>>
    /\ indexes = <<0, 2>>
    /\ Len(fragment_payloads) = drv.k
    /\ drv.handle.k = drv.k

====
